---- MODULE Spec2Model ----
(***************************************************************************)
(* Product catalog REST service: the resource handlers of                  *)
(* service/routes.py over the Product model (service/models.py) and its    *)
(* relational store.                                                       *)
(*                                                                         *)
(* Text that the code converts (upper(), lower(), Decimal(), str()) is a   *)
(* sequence of one-character strings, so the conversions are computed.     *)
(***************************************************************************)
EXTENDS Integers, Sequences, FiniteSets, TLC

VARIABLES rows,     \* the product table, in store order
          seq,      \* the next value of the table's identity sequence
          used,     \* history: every id a record has ever held
          req,      \* the request handled last
          resp,     \* the response given to it
          rows0,    \* the product table as it was before that request
          calls     \* the requests being handled at the same time, each at its step

vars == <<rows, seq, used, req, resp, rows0, calls>>

\* Highest id the identity sequence hands out in the model.
MaxSeq == 3

\* An unset id (None in the code).
NoId == -1

(***************************************************************************)
(* Text                                                                    *)
(***************************************************************************)
upper_char(c) ==
    CASE c = "a" -> "A" [] c = "b" -> "B" [] c = "c" -> "C" [] c = "d" -> "D"
      [] c = "e" -> "E" [] c = "f" -> "F" [] c = "g" -> "G" [] c = "h" -> "H"
      [] c = "i" -> "I" [] c = "j" -> "J" [] c = "k" -> "K" [] c = "l" -> "L"
      [] c = "m" -> "M" [] c = "n" -> "N" [] c = "o" -> "O" [] c = "p" -> "P"
      [] c = "q" -> "Q" [] c = "r" -> "R" [] c = "s" -> "S" [] c = "t" -> "T"
      [] c = "u" -> "U" [] c = "v" -> "V" [] c = "w" -> "W" [] c = "x" -> "X"
      [] c = "y" -> "Y" [] c = "z" -> "Z" [] OTHER -> c

lower_char(c) ==
    CASE c = "A" -> "a" [] c = "B" -> "b" [] c = "C" -> "c" [] c = "D" -> "d"
      [] c = "E" -> "e" [] c = "F" -> "f" [] c = "G" -> "g" [] c = "H" -> "h"
      [] c = "I" -> "i" [] c = "J" -> "j" [] c = "K" -> "k" [] c = "L" -> "l"
      [] c = "M" -> "m" [] c = "N" -> "n" [] c = "O" -> "o" [] c = "P" -> "p"
      [] c = "Q" -> "q" [] c = "R" -> "r" [] c = "S" -> "s" [] c = "T" -> "t"
      [] c = "U" -> "u" [] c = "V" -> "v" [] c = "W" -> "w" [] c = "X" -> "x"
      [] c = "Y" -> "y" [] c = "Z" -> "z" [] OTHER -> c

\* str.upper() and str.lower()
upper(s) == [i \in 1..Len(s) |-> upper_char(s[i])]
lower(s) == [i \in 1..Len(s) |-> lower_char(s[i])]

Digits == {"0", "1", "2", "3", "4", "5", "6", "7", "8", "9"}

digit_value(c) ==
    CASE c = "0" -> 0 [] c = "1" -> 1 [] c = "2" -> 2 [] c = "3" -> 3
      [] c = "4" -> 4 [] c = "5" -> 5 [] c = "6" -> 6 [] c = "7" -> 7
      [] c = "8" -> 8 [] c = "9" -> 9

digit_char(n) ==
    CASE n = 0 -> "0" [] n = 1 -> "1" [] n = 2 -> "2" [] n = 3 -> "3"
      [] n = 4 -> "4" [] n = 5 -> "5" [] n = 6 -> "6" [] n = 7 -> "7"
      [] n = 8 -> "8" [] n = 9 -> "9"

RECURSIVE number_of(_)
number_of(ds) ==
    IF ds = <<>> THEN 0
    ELSE number_of(SubSeq(ds, 1, Len(ds) - 1)) * 10 + digit_value(ds[Len(ds)])

RECURSIVE digits_of(_)
digits_of(n) ==
    IF n < 10 THEN <<digit_char(n)>>
    ELSE digits_of(n \div 10) \o <<digit_char(n % 10)>>

RECURSIVE pow10(_)
pow10(k) == IF k = 0 THEN 1 ELSE 10 * pow10(k - 1)

RECURSIVE zeros(_)
zeros(k) == IF k <= 0 THEN <<>> ELSE <<"0">> \o zeros(k - 1)

(***************************************************************************)
(* Decimal: coefficient c and number e of fractional digits, value         *)
(* c / 10^e.  The digits are kept (12.50 is c = 1250, e = 2); equality is  *)
(* by value.                                                               *)
(***************************************************************************)
NoDecimal == [ok |-> FALSE, c |-> 0, e |-> 0]

\* Decimal(text): digits with at most one point and at least one digit.
Decimal(s) ==
    LET points == {i \in 1..Len(s) : s[i] = "."}
        wellformed == /\ Len(s) > 0
                      /\ \A i \in 1..Len(s) : s[i] \in Digits \cup {"."}
                      /\ Cardinality(points) <= 1
                      /\ \E i \in 1..Len(s) : s[i] \in Digits
    IN  IF ~wellformed THEN NoDecimal
        ELSE LET p     == IF points = {} THEN Len(s) + 1
                          ELSE CHOOSE i \in points : TRUE
                 whole == SubSeq(s, 1, p - 1)
                 frac  == SubSeq(s, p + 1, Len(s))
             IN  [ok |-> TRUE, c |-> number_of(whole \o frac), e |-> Len(frac)]

\* Decimal.__eq__
decimal_eq(a, b) == a.c * pow10(b.e) = b.c * pow10(a.e)

\* str(Decimal)
decimal_str(d) ==
    LET ds     == digits_of(d.c)
        padded == zeros(d.e + 1 - Len(ds)) \o ds
        n      == Len(padded)
    IN  IF d.e = 0 THEN padded
        ELSE SubSeq(padded, 1, n - d.e) \o <<".">> \o SubSeq(padded, n - d.e + 1, n)

RECURSIVE strip_zeros(_)
strip_zeros(d) ==
    IF d.e > 0 /\ d.c % 10 = 0 THEN strip_zeros([d EXCEPT !.c = d.c \div 10, !.e = d.e - 1])
    ELSE d

\* Decimal(number): a JSON number arrives as a binary float or an int, which
\* carries a value and no scale.  The model's numbers are exact in binary.
decimal_of_number(lit) == strip_zeros(Decimal(lit))

(***************************************************************************)
(* Category and Product (service/models.py)                                *)
(***************************************************************************)
\* The members of the Category enumeration; a member is known by its name.
Category == { [name |-> <<"U", "N", "K", "N", "O", "W", "N">>],
              [name |-> <<"C", "L", "O", "T", "H", "S">>],
              [name |-> <<"F", "O", "O", "D">>],
              [name |-> <<"T", "O", "O", "L", "S">>],
              [name |-> <<"A", "U", "T", "O", "M", "O", "T", "I", "V", "E">>] }

\* getattr(Category, name): the member of that name, if there is one.
has_category(name) == \E m \in Category : m.name = name
category_named(name) == CHOOSE m \in Category : m.name = name

\* Product(): a new instance, every column unset except the category default.
Product ==
    [id |-> NoId, name |-> <<>>, description |-> <<>>,
     price |-> [ok |-> TRUE, c |-> 0, e |-> 0], available |-> FALSE,
     category |-> category_named(<<"U", "N", "K", "N", "O", "W", "N">>)]

NoError == [kind |-> "none", field |-> "", value |-> <<>>]
DataValidationError(kind, field, value) ==
    [kind |-> kind, field |-> field, value |-> value]

\* deserialize leaving the category at its default when the mapping has none.
deserialize_category_defaulted(product, data) ==
    IF data.kind # "object"
    THEN [error |-> DataValidationError("bad_data", "", <<>>), product |-> product]
    ELSE
    LET d  == data.obj
        p1 == [product EXCEPT !.name = d["name"].v]
        p2 == [p1 EXCEPT !.description = d["description"].v]
        p3 == [p2 EXCEPT !.price = IF d["price"].t = "number"
                                   THEN decimal_of_number(d["price"].v)
                                   ELSE Decimal(d["price"].v)]
        p4 == [p3 EXCEPT !.available = (d["available"].v = <<"t", "r", "u", "e">>)]
        p5 == [p4 EXCEPT !.category = category_named(upper(d["category"].v))]
        missing(f, p) == [error |-> DataValidationError("missing", f, <<>>), product |-> p]
    IN  IF "name" \notin DOMAIN d THEN missing("name", product)
        ELSE IF "description" \notin DOMAIN d THEN missing("description", p1)
        ELSE IF "price" \notin DOMAIN d THEN missing("price", p2)
        ELSE IF "available" \notin DOMAIN d THEN missing("available", p3)
        ELSE IF d["available"].t # "boolean"
        THEN [error |-> DataValidationError("bad_type", "available", d["available"].v),
              product |-> p3]
        ELSE IF "category" \notin DOMAIN d THEN [error |-> NoError, product |-> p4]
        ELSE IF ~has_category(upper(d["category"].v))
        THEN [error |-> DataValidationError("bad_attribute", "category", d["category"].v),
              product |-> p4]
        ELSE [error |-> NoError, product |-> p5]

\* deserialize taking the text "true" or "false" of any letter case for the
\* boolean.
deserialize_available_coerced(product, data) ==
    IF data.kind # "object"
    THEN [error |-> DataValidationError("bad_data", "", <<>>), product |-> product]
    ELSE
    LET d  == data.obj
        p1 == [product EXCEPT !.name = d["name"].v]
        p2 == [p1 EXCEPT !.description = d["description"].v]
        p3 == [p2 EXCEPT !.price = IF d["price"].t = "number"
                                   THEN decimal_of_number(d["price"].v)
                                   ELSE Decimal(d["price"].v)]
        p4 == [p3 EXCEPT !.available = (lower(d["available"].v) = <<"t", "r", "u", "e">>)]
        p5 == [p4 EXCEPT !.category = category_named(upper(d["category"].v))]
        missing(f, p) == [error |-> DataValidationError("missing", f, <<>>), product |-> p]
    IN  IF "name" \notin DOMAIN d THEN missing("name", product)
        ELSE IF "description" \notin DOMAIN d THEN missing("description", p1)
        ELSE IF "price" \notin DOMAIN d THEN missing("price", p2)
        ELSE IF "available" \notin DOMAIN d THEN missing("available", p3)
        ELSE IF d["available"].t # "boolean"
                /\ lower(d["available"].v) \notin {<<"t", "r", "u", "e">>, <<"f", "a", "l", "s", "e">>}
        THEN [error |-> DataValidationError("bad_type", "available", d["available"].v),
              product |-> p3]
        ELSE IF "category" \notin DOMAIN d THEN missing("category", p4)
        ELSE IF ~has_category(upper(d["category"].v))
        THEN [error |-> DataValidationError("bad_attribute", "category", d["category"].v),
              product |-> p4]
        ELSE [error |-> NoError, product |-> p5]

\* deserialize putting UNKNOWN for a category that names no member.
deserialize_category_fallback(product, data) ==
    IF data.kind # "object"
    THEN [error |-> DataValidationError("bad_data", "", <<>>), product |-> product]
    ELSE
    LET d  == data.obj
        p1 == [product EXCEPT !.name = d["name"].v]
        p2 == [p1 EXCEPT !.description = d["description"].v]
        p3 == [p2 EXCEPT !.price = IF d["price"].t = "number"
                                   THEN decimal_of_number(d["price"].v)
                                   ELSE Decimal(d["price"].v)]
        p4 == [p3 EXCEPT !.available = (d["available"].v = <<"t", "r", "u", "e">>)]
        p5 == [p4 EXCEPT !.category = category_named(upper(d["category"].v))]
        missing(f, p) == [error |-> DataValidationError("missing", f, <<>>), product |-> p]
    IN  IF "name" \notin DOMAIN d THEN missing("name", product)
        ELSE IF "description" \notin DOMAIN d THEN missing("description", p1)
        ELSE IF "price" \notin DOMAIN d THEN missing("price", p2)
        ELSE IF "available" \notin DOMAIN d THEN missing("available", p3)
        ELSE IF d["available"].t # "boolean"
        THEN [error |-> DataValidationError("bad_type", "available", d["available"].v),
              product |-> p3]
        ELSE IF "category" \notin DOMAIN d THEN missing("category", p4)
        ELSE IF ~has_category(upper(d["category"].v))
        THEN [error |-> NoError,
              product |-> [p4 EXCEPT !.category =
                              category_named(<<"U", "N", "K", "N", "O", "W", "N">>)]]
        ELSE [error |-> NoError, product |-> p5]

\* deserialize reading every price as a number: the digits written after
\* the last significant one are not kept.
deserialize_price_as_number(product, data) ==
    IF data.kind # "object"
    THEN [error |-> DataValidationError("bad_data", "", <<>>), product |-> product]
    ELSE
    LET d  == data.obj
        p1 == [product EXCEPT !.name = d["name"].v]
        p2 == [p1 EXCEPT !.description = d["description"].v]
        p3 == [p2 EXCEPT !.price = decimal_of_number(d["price"].v)]
        p4 == [p3 EXCEPT !.available = (d["available"].v = <<"t", "r", "u", "e">>)]
        p5 == [p4 EXCEPT !.category = category_named(upper(d["category"].v))]
        missing(f, p) == [error |-> DataValidationError("missing", f, <<>>), product |-> p]
    IN  IF "name" \notin DOMAIN d THEN missing("name", product)
        ELSE IF "description" \notin DOMAIN d THEN missing("description", p1)
        ELSE IF "price" \notin DOMAIN d THEN missing("price", p2)
        ELSE IF "available" \notin DOMAIN d THEN missing("available", p3)
        ELSE IF d["available"].t # "boolean"
        THEN [error |-> DataValidationError("bad_type", "available", d["available"].v),
              product |-> p3]
        ELSE IF "category" \notin DOMAIN d THEN missing("category", p4)
        ELSE IF ~has_category(upper(d["category"].v))
        THEN [error |-> DataValidationError("bad_attribute", "category", d["category"].v),
              product |-> p4]
        ELSE [error |-> NoError, product |-> p5]

\* Product.deserialize(data): the fields are read in the order name,
\* description, price, available, category and assigned as they are read.
\* Result: the error raised (NoError if none) and the instance as it is left.
deserialize(product, data) ==
    IF data.kind # "object"
    THEN [error |-> DataValidationError("bad_data", "", <<>>), product |-> product]
    ELSE
    LET d  == data.obj
        p1 == [product EXCEPT !.name = d["name"].v]
        p2 == [p1 EXCEPT !.description = d["description"].v]
        p3 == [p2 EXCEPT !.price = IF d["price"].t = "number"
                                   THEN decimal_of_number(d["price"].v)
                                   ELSE Decimal(d["price"].v)]
        p4 == [p3 EXCEPT !.available = (d["available"].v = <<"t", "r", "u", "e">>)]
        p5 == [p4 EXCEPT !.category = category_named(upper(d["category"].v))]
        missing(f, p) == [error |-> DataValidationError("missing", f, <<>>), product |-> p]
    IN  IF "name" \notin DOMAIN d THEN missing("name", product)
        ELSE IF "description" \notin DOMAIN d THEN missing("description", p1)
        ELSE IF "price" \notin DOMAIN d THEN missing("price", p2)
        ELSE IF "available" \notin DOMAIN d THEN missing("available", p3)
        ELSE IF d["available"].t # "boolean"
        THEN [error |-> DataValidationError("bad_type", "available", d["available"].v),
              product |-> p3]
        ELSE IF "category" \notin DOMAIN d THEN missing("category", p4)
        ELSE IF ~has_category(upper(d["category"].v))
        THEN [error |-> DataValidationError("bad_attribute", "category", d["category"].v),
              product |-> p4]
        ELSE [error |-> NoError, product |-> p5]

\* Product.serialize(): the external form; the price as decimal text and the
\* category by its name.
serialize(product) ==
    [id |-> product.id, name |-> product.name, description |-> product.description,
     price |-> decimal_str(product.price), available |-> product.available,
     category |-> product.category.name]

(***************************************************************************)
(* Persistence operations of Product over the table                        *)
(***************************************************************************)
\* Product.all(): every record, in store order.
all(table) == table

\* Product.find(id): the records of that id, none when absent.
find(table, product_id) == SelectSeq(table, LAMBDA r : r.id = product_id)

\* Product.find_by_name(name)
find_by_name(table, name) == SelectSeq(table, LAMBDA r : r.name = name)

\* Product.find_by_category(category): category is a member of Category.
find_by_category(table, category) == SelectSeq(table, LAMBDA r : r.category = category)

\* Product.find_by_availability(available)
find_by_availability(table, available) ==
    SelectSeq(table, LAMBDA r : r.available = available)

\* A price handed to find_by_price: a decimal d, or text v still to be parsed.
PriceDecimal(d) == [t |-> "decimal", d |-> d, v |-> <<>>]
PriceText(v)    == [t |-> "string", d |-> NoDecimal, v |-> v]

\* find_by_price comparing the text as written with the text of the stored
\* price.
find_by_price_as_written(table, price) ==
    SelectSeq(table, LAMBDA r : IF price.t = "string" THEN decimal_str(r.price) = price.v
                                ELSE decimal_eq(r.price, price.d))

\* Product.find_by_price(price): text is parsed to the decimal it writes.
find_by_price(table, price) ==
    LET price_value == IF price.t = "string" THEN Decimal(price.v) ELSE price.d
    IN  SelectSeq(table, LAMBDA r : decimal_eq(r.price, price_value))

\* product.create(): inserts the instance as a new row.  The store draws the
\* id from its identity sequence unless the caller has fixed one.
create(table, sequence, product) ==
    LET new_id == IF product.id = NoId THEN sequence ELSE product.id
        row    == [product EXCEPT !.id = new_id]
    IN  [table |-> Append(table, row),
         sequence |-> IF product.id = NoId THEN sequence + 1 ELSE sequence,
         product |-> row]

\* update without the check of the id.
update_unchecked(table, loaded_id, product) ==
    [error |-> NoError,
     table |-> [i \in 1..Len(table) |->
                   IF table[i].id = loaded_id THEN product ELSE table[i]]]

\* product.update(): persists the field values of the instance loaded from
\* the row whose id was loaded_id; fails when the instance has no id.
update(table, loaded_id, product) ==
    IF product.id = NoId
    THEN [error |-> DataValidationError("no_id", "id", <<>>), table |-> table]
    ELSE [error |-> NoError,
          table |-> [i \in 1..Len(table) |->
                        IF table[i].id = loaded_id THEN product ELSE table[i]]]

\* product.delete(): removes the row of the instance's id.
delete(table, product) == SelectSeq(table, LAMBDA r : r.id # product.id)

(***************************************************************************)
(* Requests and responses                                                  *)
(***************************************************************************)
Restrict(f, S) == [k \in S |-> f[k]]

Str(v)  == [t |-> "string", v |-> v]
Num(v)  == [t |-> "number", v |-> v]
Bool(b) == [t |-> "boolean",
            v |-> IF b THEN <<"t", "r", "u", "e">> ELSE <<"f", "a", "l", "s", "e">>]

Fields == {"name", "description", "price", "available", "category"}

Object(o) == [kind |-> "object", obj |-> o]
NoBody    == [kind |-> "none", obj |-> Restrict(<<>>, {})]

\* A response: status, the serialized records of the JSON payload (one for a
\* record, any number for an array, none for an empty body), the id the
\* Location header addresses, and the error reported.
Response(status, records, location, error) ==
    [status |-> status, records |-> records, location |-> location, error |-> error]

\* abort(status, message)
abort(status, error) == Response(status, <<>>, NoId, error)

HTTPError(kind) == [kind |-> kind, field |-> "", value |-> <<>>]

\* The error handler registered for DataValidationError answers 400.
bad_request(error) == abort(400, error)

\* request.args.get(k) is used as a condition: an absent parameter and an
\* empty one both skip the filter.
given(args, k) == k \in DOMAIN args /\ args[k] # <<>>

\* check_content_type without its first test: a request that has no
\* Content-Type header passes.
check_content_type_absent_passes(headers, content_type) ==
    IF "Content-Type" \notin DOMAIN headers THEN TRUE
    ELSE IF headers["Content-Type"] = content_type THEN TRUE
    ELSE FALSE

check_content_type(headers, content_type) ==
    IF "Content-Type" \notin DOMAIN headers THEN FALSE
    ELSE IF headers["Content-Type"] = content_type THEN TRUE
    ELSE FALSE

\* create_products with the placeholder Location "/" left in.
create_products_placeholder_location(table, sequence, request) ==
    IF ~check_content_type(request.headers, "application/json")
    THEN [table |-> table, sequence |-> sequence,
          resp |-> abort(415, HTTPError("media_type"))]
    ELSE IF request.body.kind = "malformed"
    THEN [table |-> table, sequence |-> sequence,
          resp |-> abort(400, HTTPError("bad_json"))]
    ELSE
    LET d == deserialize(Product, request.body)
        c == create(table, sequence, d.product)
    IN  IF d.error # NoError
        THEN [table |-> table, sequence |-> sequence, resp |-> bad_request(d.error)]
        ELSE [table |-> c.table, sequence |-> c.sequence,
              resp |-> Response(201, <<serialize(c.product)>>, NoId, NoError)]

\* create_products taking the id of the new record from the body when the
\* body carries one.
create_products_id_from_body(table, sequence, request) ==
    IF ~check_content_type(request.headers, "application/json")
    THEN [table |-> table, sequence |-> sequence,
          resp |-> abort(415, HTTPError("media_type"))]
    ELSE IF request.body.kind = "malformed"
    THEN [table |-> table, sequence |-> sequence,
          resp |-> abort(400, HTTPError("bad_json"))]
    ELSE
    LET d == deserialize(Product, request.body)
        p == IF "id" \in DOMAIN request.body.obj
             THEN [d.product EXCEPT !.id = number_of(request.body.obj["id"].v)]
             ELSE d.product
        c == create(table, sequence, p)
    IN  IF d.error # NoError
        THEN [table |-> table, sequence |-> sequence, resp |-> bad_request(d.error)]
        ELSE [table |-> c.table, sequence |-> c.sequence,
              resp |-> Response(201, <<serialize(c.product)>>, c.product.id, NoError)]

\* create_products swallowing the validation error and storing the instance
\* as deserialize left it.
create_products_error_swallowed(table, sequence, request) ==
    IF ~check_content_type(request.headers, "application/json")
    THEN [table |-> table, sequence |-> sequence,
          resp |-> abort(415, HTTPError("media_type"))]
    ELSE IF request.body.kind = "malformed"
    THEN [table |-> table, sequence |-> sequence,
          resp |-> abort(400, HTTPError("bad_json"))]
    ELSE
    LET d == deserialize(Product, request.body)
        c == create(table, sequence, d.product)
    IN  [table |-> c.table, sequence |-> c.sequence,
         resp |-> Response(201, <<serialize(c.product)>>, c.product.id, NoError)]

\* POST /products
create_products(table, sequence, request) ==
    IF ~check_content_type(request.headers, "application/json")
    THEN [table |-> table, sequence |-> sequence,
          resp |-> abort(415, HTTPError("media_type"))]
    ELSE IF request.body.kind = "malformed"
    THEN [table |-> table, sequence |-> sequence,
          resp |-> abort(400, HTTPError("bad_json"))]
    ELSE
    LET d == deserialize(Product, request.body)
        c == create(table, sequence, d.product)
    IN  IF d.error # NoError
        THEN [table |-> table, sequence |-> sequence, resp |-> bad_request(d.error)]
        ELSE [table |-> c.table, sequence |-> c.sequence,
              resp |-> Response(201, <<serialize(c.product)>>, c.product.id, NoError)]

\* list_products starting from the available products instead of all().
list_products_available_only(table, request) ==
    Response(200,
             LET base == SelectSeq(table, LAMBDA p : p.available)
             IN  [i \in 1..Len(base) |-> serialize(base[i])],
             NoId, NoError)

\* list_products with the category filter run on all() instead of on the
\* records the name filter left.
list_products_each_on_all(table, request) ==
    LET args == request.args
        by_name == IF given(args, "name") THEN find_by_name(table, args["name"])
                   ELSE all(table)
        bad_category == given(args, "category") /\ ~has_category(upper(args["category"]))
        by_category ==
            IF given(args, "category")
            THEN SelectSeq(all(table),
                    LAMBDA p : p.category = category_named(upper(args["category"])))
            ELSE by_name
        by_available ==
            IF given(args, "available")
            THEN SelectSeq(by_category,
                    LAMBDA p : p.available = (lower(args["available"]) = <<"t", "r", "u", "e">>))
            ELSE by_category
        bad_price == given(args, "price") /\ ~Decimal(args["price"]).ok
        by_price ==
            IF given(args, "price")
            THEN SelectSeq(by_available,
                    LAMBDA p : decimal_eq(p.price, Decimal(args["price"])))
            ELSE by_available
    IN  IF bad_category
        THEN abort(400, [kind |-> "invalid_category", field |-> "category",
                         value |-> args["category"]])
        ELSE IF bad_price
        THEN abort(400, [kind |-> "invalid_price", field |-> "price",
                         value |-> args["price"]])
        ELSE Response(200, [i \in 1..Len(by_price) |-> serialize(by_price[i])],
                      NoId, NoError)

\* list_products answering an unknown category with an empty array.
list_products_bad_category_empty(table, request) ==
    LET args == request.args
        by_name == IF given(args, "name") THEN find_by_name(table, args["name"])
                   ELSE all(table)
        bad_category == FALSE
        by_category ==
            IF given(args, "category")
            THEN SelectSeq(by_name,
                    LAMBDA p : has_category(upper(args["category"])) /\ p.category = category_named(upper(args["category"])))
            ELSE by_name
        by_available ==
            IF given(args, "available")
            THEN SelectSeq(by_category,
                    LAMBDA p : p.available = (lower(args["available"]) = <<"t", "r", "u", "e">>))
            ELSE by_category
        bad_price == given(args, "price") /\ ~Decimal(args["price"]).ok
        by_price ==
            IF given(args, "price")
            THEN SelectSeq(by_available,
                    LAMBDA p : decimal_eq(p.price, Decimal(args["price"])))
            ELSE by_available
    IN  IF bad_category
        THEN abort(400, [kind |-> "invalid_category", field |-> "category",
                         value |-> args["category"]])
        ELSE IF bad_price
        THEN abort(400, [kind |-> "invalid_price", field |-> "price",
                         value |-> args["price"]])
        ELSE Response(200, [i \in 1..Len(by_price) |-> serialize(by_price[i])],
                      NoId, NoError)

\* list_products comparing the available parameter with "true" as written.
list_products_available_exact(table, request) ==
    LET args == request.args
        by_name == IF given(args, "name") THEN find_by_name(table, args["name"])
                   ELSE all(table)
        bad_category == given(args, "category") /\ ~has_category(upper(args["category"]))
        by_category ==
            IF given(args, "category")
            THEN SelectSeq(by_name,
                    LAMBDA p : p.category = category_named(upper(args["category"])))
            ELSE by_name
        by_available ==
            IF given(args, "available")
            THEN SelectSeq(by_category,
                    LAMBDA p : p.available = (args["available"] = <<"t", "r", "u", "e">>))
            ELSE by_category
        bad_price == given(args, "price") /\ ~Decimal(args["price"]).ok
        by_price ==
            IF given(args, "price")
            THEN SelectSeq(by_available,
                    LAMBDA p : decimal_eq(p.price, Decimal(args["price"])))
            ELSE by_available
    IN  IF bad_category
        THEN abort(400, [kind |-> "invalid_category", field |-> "category",
                         value |-> args["category"]])
        ELSE IF bad_price
        THEN abort(400, [kind |-> "invalid_price", field |-> "price",
                         value |-> args["price"]])
        ELSE Response(200, [i \in 1..Len(by_price) |-> serialize(by_price[i])],
                      NoId, NoError)

\* list_products answering an unparsable price with an empty array.
list_products_bad_price_empty(table, request) ==
    LET args == request.args
        by_name == IF given(args, "name") THEN find_by_name(table, args["name"])
                   ELSE all(table)
        bad_category == given(args, "category") /\ ~has_category(upper(args["category"]))
        by_category ==
            IF given(args, "category")
            THEN SelectSeq(by_name,
                    LAMBDA p : p.category = category_named(upper(args["category"])))
            ELSE by_name
        by_available ==
            IF given(args, "available")
            THEN SelectSeq(by_category,
                    LAMBDA p : p.available = (lower(args["available"]) = <<"t", "r", "u", "e">>))
            ELSE by_category
        bad_price == FALSE
        by_price ==
            IF given(args, "price")
            THEN SelectSeq(by_available,
                    LAMBDA p : Decimal(args["price"]).ok /\ decimal_eq(p.price, Decimal(args["price"])))
            ELSE by_available
    IN  IF bad_category
        THEN abort(400, [kind |-> "invalid_category", field |-> "category",
                         value |-> args["category"]])
        ELSE IF bad_price
        THEN abort(400, [kind |-> "invalid_price", field |-> "price",
                         value |-> args["price"]])
        ELSE Response(200, [i \in 1..Len(by_price) |-> serialize(by_price[i])],
                      NoId, NoError)

\* list_products answering with the newest record first.
list_products_newest_first(table, request) ==
    LET args == request.args
        by_name == IF given(args, "name") THEN find_by_name(table, args["name"])
                   ELSE all(table)
        bad_category == given(args, "category") /\ ~has_category(upper(args["category"]))
        by_category ==
            IF given(args, "category")
            THEN SelectSeq(by_name,
                    LAMBDA p : p.category = category_named(upper(args["category"])))
            ELSE by_name
        by_available ==
            IF given(args, "available")
            THEN SelectSeq(by_category,
                    LAMBDA p : p.available = (lower(args["available"]) = <<"t", "r", "u", "e">>))
            ELSE by_category
        bad_price == given(args, "price") /\ ~Decimal(args["price"]).ok
        by_price ==
            IF given(args, "price")
            THEN SelectSeq(by_available,
                    LAMBDA p : decimal_eq(p.price, Decimal(args["price"])))
            ELSE by_available
    IN  IF bad_category
        THEN abort(400, [kind |-> "invalid_category", field |-> "category",
                         value |-> args["category"]])
        ELSE IF bad_price
        THEN abort(400, [kind |-> "invalid_price", field |-> "price",
                         value |-> args["price"]])
        ELSE Response(200, [i \in 1..Len(by_price) |->
                         serialize(by_price[Len(by_price) + 1 - i])],
                      NoId, NoError)

\* GET /products
list_products(table, request) ==
    LET args == request.args
        by_name == IF given(args, "name") THEN find_by_name(table, args["name"])
                   ELSE all(table)
        bad_category == given(args, "category") /\ ~has_category(upper(args["category"]))
        by_category ==
            IF given(args, "category")
            THEN SelectSeq(by_name,
                    LAMBDA p : p.category = category_named(upper(args["category"])))
            ELSE by_name
        by_available ==
            IF given(args, "available")
            THEN SelectSeq(by_category,
                    LAMBDA p : p.available = (lower(args["available"]) = <<"t", "r", "u", "e">>))
            ELSE by_category
        bad_price == given(args, "price") /\ ~Decimal(args["price"]).ok
        by_price ==
            IF given(args, "price")
            THEN SelectSeq(by_available,
                    LAMBDA p : decimal_eq(p.price, Decimal(args["price"])))
            ELSE by_available
    IN  IF bad_category
        THEN abort(400, [kind |-> "invalid_category", field |-> "category",
                         value |-> args["category"]])
        ELSE IF bad_price
        THEN abort(400, [kind |-> "invalid_price", field |-> "price",
                         value |-> args["price"]])
        ELSE Response(200, [i \in 1..Len(by_price) |-> serialize(by_price[i])],
                      NoId, NoError)

\* get_products without the test for an absent record.
get_products_unchecked(table, request) ==
    LET product == find(table, request.id)
    IN  Response(200, [i \in 1..Len(product) |-> serialize(product[i])], NoId, NoError)

\* GET /products/<int:product_id>
get_products(table, request) ==
    LET product == find(table, request.id)
    IN  IF product = <<>> THEN abort(404, HTTPError("not_found"))
        ELSE Response(200, <<serialize(product[1])>>, NoId, NoError)

\* update_products letting the id of the body replace the path id.
update_products_id_from_body(table, request) ==
    IF ~check_content_type(request.headers, "application/json")
    THEN [table |-> table, resp |-> abort(415, HTTPError("media_type"))]
    ELSE
    LET found == find(table, request.id)
    IN  IF found = <<>>
        THEN [table |-> table, resp |-> abort(404, HTTPError("not_found"))]
        ELSE IF request.body.kind = "malformed"
        THEN [table |-> table, resp |-> abort(400, HTTPError("bad_json"))]
        ELSE
        LET d       == deserialize(found[1], request.body)
            product == IF "id" \in DOMAIN request.body.obj
                       THEN [d.product EXCEPT !.id = number_of(request.body.obj["id"].v)]
                       ELSE d.product
            u       == update(table, found[1].id, product)
        IN  IF d.error # NoError
            THEN [table |-> table, resp |-> bad_request(d.error)]
            ELSE IF u.error # NoError
            THEN [table |-> table, resp |-> bad_request(u.error)]
            ELSE [table |-> u.table,
                  resp |-> Response(200, <<serialize(product)>>, NoId, NoError)]

\* update_products inserting the record when the id has none (upsert).
update_products_upsert(table, request) ==
    IF ~check_content_type(request.headers, "application/json")
    THEN [table |-> table, resp |-> abort(415, HTTPError("media_type"))]
    ELSE IF request.body.kind = "malformed"
    THEN [table |-> table, resp |-> abort(400, HTTPError("bad_json"))]
    ELSE
    LET found   == find(table, request.id)
        d       == deserialize(IF found = <<>> THEN Product ELSE found[1], request.body)
        product == [d.product EXCEPT !.id = request.id]
    IN  IF d.error # NoError
        THEN [table |-> table, resp |-> bad_request(d.error)]
        ELSE IF found = <<>>
        THEN [table |-> Append(table, product),
              resp |-> Response(201, <<serialize(product)>>, NoId, NoError)]
        ELSE [table |-> update(table, found[1].id, product).table,
              resp |-> Response(200, <<serialize(product)>>, NoId, NoError)]

\* update_products validating the body before it fetches the record.
update_products_validate_first(table, request) ==
    IF ~check_content_type(request.headers, "application/json")
    THEN [table |-> table, resp |-> abort(415, HTTPError("media_type"))]
    ELSE IF request.body.kind = "malformed"
    THEN [table |-> table, resp |-> abort(400, HTTPError("bad_json"))]
    ELSE
    LET found   == find(table, request.id)
        d       == deserialize(IF found = <<>> THEN Product ELSE found[1], request.body)
        product == [d.product EXCEPT !.id = request.id]
    IN  IF d.error # NoError
        THEN [table |-> table, resp |-> bad_request(d.error)]
        ELSE IF found = <<>>
        THEN [table |-> table, resp |-> abort(404, HTTPError("not_found"))]
        ELSE [table |-> update(table, found[1].id, product).table,
              resp |-> Response(200, <<serialize(product)>>, NoId, NoError)]

\* update_products persisting the fields overwritten before the validation
\* failed.
update_products_partial_write(table, request) ==
    IF ~check_content_type(request.headers, "application/json")
    THEN [table |-> table, resp |-> abort(415, HTTPError("media_type"))]
    ELSE
    LET found == find(table, request.id)
    IN  IF found = <<>>
        THEN [table |-> table, resp |-> abort(404, HTTPError("not_found"))]
        ELSE IF request.body.kind = "malformed"
        THEN [table |-> table, resp |-> abort(400, HTTPError("bad_json"))]
        ELSE
        LET d       == deserialize(found[1], request.body)
            product == [d.product EXCEPT !.id = request.id]
            u       == update(table, found[1].id, product)
        IN  IF d.error # NoError
            THEN [table |-> update(table, found[1].id, product).table,
                  resp |-> bad_request(d.error)]
            ELSE IF u.error # NoError
            THEN [table |-> table, resp |-> bad_request(u.error)]
            ELSE [table |-> u.table,
                  resp |-> Response(200, <<serialize(product)>>, NoId, NoError)]

\* PUT /products/<int:product_id>
update_products(table, request) ==
    IF ~check_content_type(request.headers, "application/json")
    THEN [table |-> table, resp |-> abort(415, HTTPError("media_type"))]
    ELSE
    LET found == find(table, request.id)
    IN  IF found = <<>>
        THEN [table |-> table, resp |-> abort(404, HTTPError("not_found"))]
        ELSE IF request.body.kind = "malformed"
        THEN [table |-> table, resp |-> abort(400, HTTPError("bad_json"))]
        ELSE
        LET d       == deserialize(found[1], request.body)
            product == [d.product EXCEPT !.id = request.id]
            u       == update(table, found[1].id, product)
        IN  IF d.error # NoError
            THEN [table |-> table, resp |-> bad_request(d.error)]
            ELSE IF u.error # NoError
            THEN [table |-> table, resp |-> bad_request(u.error)]
            ELSE [table |-> u.table,
                  resp |-> Response(200, <<serialize(product)>>, NoId, NoError)]

\* delete_products answering 404 when the id has no record.
delete_products_strict(table, request) ==
    LET product == find(table, request.id)
    IN  IF product = <<>>
        THEN [table |-> table, resp |-> abort(404, HTTPError("not_found"))]
        ELSE [table |-> delete(table, product[1]),
              resp |-> Response(204, <<>>, NoId, NoError)]

\* delete_products removing the record of the id and every older record.
delete_products_through(table, request) ==
    LET product == find(table, request.id)
    IN  [table |-> IF product # <<>>
                   THEN SelectSeq(table, LAMBDA r : r.id > request.id) ELSE table,
         resp |-> Response(204, <<>>, NoId, NoError)]

\* DELETE /products/<int:product_id>
delete_products(table, request) ==
    LET product == find(table, request.id)
    IN  [table |-> IF product # <<>> THEN delete(table, product[1]) ELSE table,
         resp |-> Response(204, <<>>, NoId, NoError)]

\* GET /health
healthcheck == Response(200, <<>>, NoId, NoError)

\* The verbs the route declarations list for a path.
methods(path) ==
    CASE path = "/products" -> {"GET", "POST"}
      [] path = "/products/id" -> {"GET", "PUT", "DELETE"}
      [] OTHER -> {"GET"}

\* dispatch with PUT also listed on the collection rule of create_products.
dispatch_put_on_collection(table, sequence, request) ==
    LET same(r) == [table |-> table, sequence |-> sequence, resp |-> r]
        get == IF request.path = "/products" THEN list_products(table, request)
               ELSE IF request.path = "/products/id" THEN get_products(table, request)
               ELSE healthcheck
        put == update_products(table, request)
        del == delete_products(table, request)
    IN  IF request.method = "OPTIONS"
        THEN same(Response(200, <<>>, NoId, NoError))
        ELSE IF request.method = "HEAD" /\ "GET" \in methods(request.path)
        THEN same([get EXCEPT !.records = <<>>])
        ELSE IF request.method = "PUT" /\ request.path = "/products"
        THEN create_products(table, sequence, request)
        ELSE IF request.method \notin methods(request.path)
        THEN same(abort(405, HTTPError("method_not_allowed")))
        ELSE IF request.method = "GET" THEN same(get)
        ELSE IF request.method = "POST" THEN create_products(table, sequence, request)
        ELSE IF request.method = "PUT"
        THEN [table |-> put.table, sequence |-> sequence, resp |-> put.resp]
        ELSE [table |-> del.table, sequence |-> sequence, resp |-> del.resp]

\* The routing of a request to its handler over the route declarations.
\* The framework answers OPTIONS itself on every rule, serves HEAD with the
\* GET handler of a rule that lists GET (dropping the body), and answers 405
\* for any other verb the rules of the path do not list.
dispatch(table, sequence, request) ==
    LET same(r) == [table |-> table, sequence |-> sequence, resp |-> r]
        get == IF request.path = "/products" THEN list_products(table, request)
               ELSE IF request.path = "/products/id" THEN get_products(table, request)
               ELSE healthcheck
        put == update_products(table, request)
        del == delete_products(table, request)
    IN  IF request.method = "OPTIONS"
        THEN same(Response(200, <<>>, NoId, NoError))
        ELSE IF request.method = "HEAD" /\ "GET" \in methods(request.path)
        THEN same([get EXCEPT !.records = <<>>])
        ELSE IF request.method \notin methods(request.path)
        THEN same(abort(405, HTTPError("method_not_allowed")))
        ELSE IF request.method = "GET" THEN same(get)
        ELSE IF request.method = "POST" THEN create_products(table, sequence, request)
        ELSE IF request.method = "PUT"
        THEN [table |-> put.table, sequence |-> sequence, resp |-> put.resp]
        ELSE [table |-> del.table, sequence |-> sequence, resp |-> del.resp]

(***************************************************************************)
(* The inputs of the model                                                 *)
(***************************************************************************)
ContentTypes == {"application/json", "text/html", "application/json; charset=utf-8"}

NoHeaders == Restrict(<<>>, {})
Headers == {NoHeaders} \cup {[k \in {"Content-Type"} |-> ct] : ct \in ContentTypes}
JsonHeaders == [k \in {"Content-Type"} |-> "application/json"]

Shirt ==
    [id |-> Num(<<"1">>), name |-> Str(<<"A">>), description |-> Str(<<"d">>),
     price |-> Str(<<"1", "0", ".", "0", "0">>), available |-> Bool(TRUE),
     category |-> Str(<<"C", "L", "O", "T", "H", "S">>)]
Pants ==
    [id |-> Num(<<"1">>), name |-> Str(<<"B">>), description |-> Str(<<"e">>),
     price |-> Num(<<"1", "0", ".", "5">>), available |-> Bool(FALSE),
     category |-> Str(<<"f", "o", "o", "d">>)]
ValidBodies ==
    { Object(Restrict(Shirt, Fields)),
      Object(Restrict(Pants, Fields \cup {"id"})) }

InvalidBodies ==
    { [kind |-> "null", obj |-> Restrict(<<>>, {})],
      Object(Restrict(Shirt, {})),
      Object(Restrict(Pants, Fields \ {"category"})),
      Object([Restrict(Shirt, Fields) EXCEPT !["available"] = Str(<<"t", "r", "u", "e">>)]),
      Object([Restrict(Pants, Fields) EXCEPT !["category"] = Str(<<"b", "o", "g", "u", "s">>)]) }

MalformedBody == [kind |-> "malformed", obj |-> Restrict(<<>>, {})]

Bodies == ValidBodies \cup InvalidBodies \cup {MalformedBody}

\* Header and body of the body-bearing requests.
Writes ==
    {<<JsonHeaders, b>> : b \in Bodies}
      \cup {<<h, b>> : h \in Headers \ {JsonHeaders},
                       b \in {Object(Restrict(Shirt, Fields)), MalformedBody}}

NoArgs == Restrict(<<>>, {})
Queries ==
    { NoArgs,
      [k \in {"name"} |-> <<"A">>],
      [k \in {"category"} |-> <<"f", "o", "o", "d">>],
      [k \in {"category"} |-> <<"b", "o", "g", "u", "s">>],
      [k \in {"available"} |-> <<"T", "r", "u", "e">>],
      [k \in {"price"} |-> <<"1", "0">>],
      [k \in {"price"} |-> <<"a", "b", "c">>] }

\* The ids a path can carry: 0 never names a record.
PathIds == 0..MaxSeq

Request(method, path, id, headers, args, body) ==
    [method |-> method, path |-> path, id |-> id, headers |-> headers,
     args |-> args, body |-> body]

ids_of(table) == {table[i].id : i \in 1..Len(table)}

\* The records of the table whose id is not the given one, in order.
Others(table, id) == SelectSeq(table, LAMBDA r : r.id # id)

(***************************************************************************)
(* The service                                                             *)
(***************************************************************************)
Init ==
    /\ rows = <<>>
    /\ seq = 1
    /\ used = {}
    /\ req = Request("NONE", "/", NoId, NoHeaders, NoArgs, NoBody)
    /\ resp = Response(0, <<>>, NoId, NoError)
    /\ rows0 = <<>>
    /\ calls = <<>>

Handled(request, table, sequence, response) ==
    /\ req' = request
    /\ resp' = response
    /\ rows0' = rows
    /\ rows' = table
    /\ seq' = sequence
    /\ used' = used \cup ids_of(table)
    /\ UNCHANGED calls

CreateProducts ==
    /\ seq <= MaxSeq
    /\ \E w \in Writes :
         LET request == Request("POST", "/products", NoId, w[1], NoArgs, w[2])
             r == create_products(rows, seq, request)
         IN  Handled(request, r.table, r.sequence, r.resp)

ListProducts ==
    \E q \in Queries :
       LET request == Request("GET", "/products", NoId, NoHeaders, q, NoBody)
       IN  Handled(request, rows, seq, list_products(rows, request))

\* GetProducts with a read that takes the record out of the store.
GetProducts_consuming ==
    \E id \in PathIds :
       LET request == Request("GET", "/products/id", id, NoHeaders, NoArgs, NoBody)
       IN  Handled(request, Others(rows, id), seq, get_products(rows, request))

GetProducts ==
    \E id \in PathIds :
       LET request == Request("GET", "/products/id", id, NoHeaders, NoArgs, NoBody)
       IN  Handled(request, rows, seq, get_products(rows, request))

UpdateProducts ==
    \E id \in PathIds, w \in Writes :
       LET request == Request("PUT", "/products/id", id, w[1], NoArgs, w[2])
           r == update_products(rows, request)
       IN  Handled(request, r.table, seq, r.resp)

DeleteProducts ==
    \E id \in PathIds :
       LET request == Request("DELETE", "/products/id", id, NoHeaders, NoArgs, NoBody)
           r == delete_products(rows, request)
       IN  Handled(request, r.table, seq, r.resp)

Healthcheck ==
    LET request == Request("GET", "/health", NoId, NoHeaders, NoArgs, NoBody)
    IN  Handled(request, rows, seq, healthcheck)

Next ==
    \/ CreateProducts
    \/ ListProducts
    \/ GetProducts
    \/ UpdateProducts
    \/ DeleteProducts
    \/ Healthcheck

Spec == Init /\ [][Next]_vars

TypeOK ==
    /\ seq \in 1..(MaxSeq + 1)
    /\ Len(rows) <= MaxSeq
    /\ resp.status \in {0, 200, 201, 204, 400, 404, 415}

(***************************************************************************)
(* One call on a given store: the table holds up to MaxRows products and   *)
(* one request, or one call of a Product method, is made on it.            *)
(***************************************************************************)
\* Most records the table holds at the start.
MaxRows == 3

Snack ==
    [id |-> Num(<<"1">>), name |-> Str(<<"A">>), description |-> Str(<<"d">>),
     price |-> Str(<<"1", "0", ".", "0">>), available |-> Bool(FALSE),
     category |-> Str(<<"F", "O", "O", "D">>)]
Boots ==
    [id |-> Num(<<"1">>), name |-> Str(<<"B">>), description |-> Str(<<"e">>),
     price |-> Num(<<"1", "0", ".", "5">>), available |-> Bool(TRUE),
     category |-> Str(<<"C", "l", "o", "t", "h", "s">>)]

\* The products a table is filled with: what deserialize makes of the bodies.
Pool ==
    {deserialize(Product, Object(Restrict(b, Fields))).product :
        b \in {Shirt, Pants, Snack, Boots}}

\* The tables: the records get the ids 1, 2, ... in store order.
Stores ==
    UNION {{[i \in 1..n |-> [f[i] EXCEPT !.id = i]] : f \in [1..n -> Pool]} :
              n \in 0..MaxRows}

ArgKeys == {"name", "category", "available", "price"}
ArgValues ==
    [name : {<<"A">>, <<"C">>, <<>>},
     category : {<<"f", "o", "o", "d">>, <<"C", "L", "O", "T", "H", "S">>,
                 <<"b", "o", "g", "u", "s">>, <<>>},
     available : {<<"T", "r", "u", "e">>, <<"n", "o">>, <<>>},
     price : {<<"1", "0", ".", "0">>, <<"a", "b", "c">>, <<>>}]
ListArgs == {Restrict(f, K) : f \in ArgValues, K \in SUBSET ArgKeys}

Verbs == {"GET", "POST", "PUT", "DELETE", "PATCH", "HEAD", "OPTIONS"}

\* Header and body of the requests that try each verb on each path.
VerbWrites ==
    { <<JsonHeaders, Object(Restrict(Shirt, Fields))>>,
      <<JsonHeaders, Object(Restrict(Shirt, {}))>>,
      <<NoHeaders, Object(Restrict(Shirt, Fields))>>,
      <<JsonHeaders, Object([Restrict(Pants, Fields) EXCEPT
                                !["category"] = Str(<<"b", "o", "g", "u", "s">>)])>> }

\* The JSON object a client sends for a serialized record.
json_of(record) ==
    Object([k \in Fields \cup {"id"} |->
              CASE k = "id" -> Num(digits_of(record.id))
                [] k = "available" -> Bool(record.available)
                [] OTHER -> Str(record[k])])

HttpCalls ==
    {Request("GET", "/products", NoId, NoHeaders, q, NoBody) : q \in ListArgs}
      \cup {Request(v, "/products", NoId, w[1], NoArgs, w[2]) :
                v \in Verbs, w \in VerbWrites}
      \cup {Request(v, "/products/id", id, w[1], NoArgs, w[2]) :
                v \in Verbs, id \in 0..MaxRows, w \in VerbWrites}
      \cup {Request("POST", "/products", NoId, JsonHeaders, NoArgs,
                    json_of(serialize([p EXCEPT !.id = 1]))) : p \in Pool}

\* The mappings handed to deserialize: the valid ones, the ones with an
\* available that is no boolean or a category that names no member, each with
\* any of its fields left out; and data that is no mapping.
Mappings ==
    { Restrict(Shirt, Fields), Restrict(Pants, Fields),
      Restrict(Snack, Fields), Restrict(Boots, Fields),
      [Restrict(Shirt, Fields) EXCEPT !["available"] = Str(<<"t", "r", "u", "e">>)],
      [Restrict(Snack, Fields) EXCEPT !["available"] = Str(<<"T", "r", "u", "e">>)],
      [Restrict(Boots, Fields) EXCEPT !["available"] = Num(<<"1">>)],
      [Restrict(Pants, Fields) EXCEPT !["category"] = Str(<<"b", "o", "g", "u", "s">>)],
      [Restrict(Shirt, Fields) EXCEPT !["available"] = Str(<<"t", "r", "u", "e">>),
                                      !["category"] = Str(<<"b", "o", "g", "u", "s">>)] }
Data ==
    {Object(Restrict(m, K)) : m \in Mappings, K \in SUBSET Fields}
      \cup {[kind |-> k, obj |-> Restrict(<<>>, {})] : k \in {"null", "string"}}

\* The calls of the methods of Product: deserialize(data) on a new instance,
\* and update() on an instance holding the fields of a valid mapping and the
\* id given, NoId for an instance whose id is unset.
MethodCalls ==
    {Request("deserialize", "", NoId, NoHeaders, NoArgs, d) : d \in Data}
      \cup {Request("update", "", id, NoHeaders, NoArgs, b) :
                id \in {NoId} \cup 0..MaxRows, b \in ValidBodies}

\* The calls of the finders of Product; the argument travels in args, and the
\* path of a find_by_price call tells whether it is handed as Decimal or str.
FindCalls ==
    {Request("find_by_name", "", NoId, NoHeaders, [k \in {"name"} |-> v], NoBody) :
        v \in {<<"A">>, <<"C">>}}
      \cup {Request("find_by_category", "", NoId, NoHeaders,
                    [k \in {"category"} |-> m.name], NoBody) : m \in Category}
      \cup {Request("find_by_availability", "", NoId, NoHeaders,
                    [k \in {"available"} |-> Bool(b).v], NoBody) : b \in BOOLEAN}
      \cup {Request("find_by_price", t, NoId, NoHeaders, [k \in {"price"} |-> v], NoBody) :
                t \in {"Decimal", "str"},
                v \in {<<"1", "0", ".", "0", "0">>, <<"1", "0">>, <<"1", "0", ".", "5">>, <<"7">>}}

Pending == [kind |-> "pending", field |-> "", value |-> <<>>]
Answered == resp.error.kind # "pending"

InitOnce ==
    \E store \in Stores, request \in HttpCalls \cup MethodCalls \cup FindCalls :
       /\ request.method = "deserialize" => store = <<>>
       /\ rows = store
       /\ rows0 = store
       /\ seq = Len(store) + 1
       /\ used = ids_of(store)
       /\ req = request
       /\ resp = Response(0, <<>>, NoId, Pending)
       /\ calls = <<>>

\* The pending HTTP request is routed and handled.
HandleOnce ==
    /\ ~Answered
    /\ req.method \in Verbs
    /\ LET r == dispatch(rows, seq, req)
       IN  /\ resp' = r.resp
           /\ rows' = r.table
           /\ seq' = r.sequence
           /\ used' = used \cup ids_of(r.table)
    /\ UNCHANGED <<req, rows0, calls>>

\* product.deserialize(data) on a new instance: the answer holds the error
\* raised and the serialized instance as the call left it.
DeserializeOnce ==
    /\ ~Answered
    /\ req.method = "deserialize"
    /\ LET d == deserialize(Product, req.body)
       IN  resp' = Response(0, <<serialize(d.product)>>, NoId, d.error)
    /\ UNCHANGED <<rows, seq, used, req, rows0, calls>>

\* product.update() on an instance of id req.id.
UpdateOnce ==
    /\ ~Answered
    /\ req.method = "update"
    /\ LET product == [deserialize(Product, req.body).product EXCEPT !.id = req.id]
           u == update(rows, req.id, product)
       IN  /\ resp' = Response(0, <<>>, NoId, u.error)
           /\ rows' = u.table
           /\ used' = used \cup ids_of(u.table)
    /\ UNCHANGED <<seq, req, rows0, calls>>

Finders == {"find_by_name", "find_by_category", "find_by_availability", "find_by_price"}

\* One finder of Product is called; the answer holds the records it returns.
FindOnce ==
    /\ ~Answered
    /\ req.method \in Finders
    /\ LET found ==
             CASE req.method = "find_by_name" -> find_by_name(rows, req.args["name"])
               [] req.method = "find_by_category" ->
                     find_by_category(rows, category_named(req.args["category"]))
               [] req.method = "find_by_availability" ->
                     find_by_availability(rows, req.args["available"] = Bool(TRUE).v)
               [] req.method = "find_by_price" ->
                     find_by_price(rows, IF req.path = "str" THEN PriceText(req.args["price"])
                                         ELSE PriceDecimal(Decimal(req.args["price"])))
       IN  resp' = Response(0, [i \in 1..Len(found) |-> serialize(found[i])], NoId, NoError)
    /\ UNCHANGED <<rows, seq, used, req, rows0, calls>>

NextOnce ==
    \/ HandleOnce
    \/ DeserializeOnce
    \/ UpdateOnce
    \/ FindOnce

SpecOnce == InitOnce /\ [][NextOnce]_vars

(***************************************************************************)
(* Two PUT requests handled at the same time.  Each request runs          *)
(* update_products in three steps: the record is found, the body is        *)
(* deserialized into the instance found, and the instance is persisted.    *)
(* Each request works on the instance it has loaded itself.                *)
(***************************************************************************)
Clients == {1, 2}

PutBodies ==
    ValidBodies \cup
      { Object([Restrict(Pants, Fields) EXCEPT
                   !["category"] = Str(<<"b", "o", "g", "u", "s">>)]) }

InitPut ==
    \E store \in Stores, id \in 1..MaxRows, body \in [Clients -> PutBodies] :
       /\ rows = store
       /\ rows0 = store
       /\ seq = Len(store) + 1
       /\ used = ids_of(store)
       /\ req = Request("NONE", "/", NoId, NoHeaders, NoArgs, NoBody)
       /\ resp = Response(0, <<>>, NoId, NoError)
       /\ calls = [c \in Clients |->
                     [request |-> Request("PUT", "/products/id", id, JsonHeaders,
                                          NoArgs, body[c]),
                      pc |-> "find", product |-> Product, fetched |-> Product,
                      resp |-> Response(0, <<>>, NoId, Pending)]]

Ended(call, response) == [call EXCEPT !.pc = "done", !.resp = response]

\* check_content_type and Product.find: the request loads its instance.
PutFind ==
    \E c \in DOMAIN calls :
       /\ calls[c].pc = "find"
       /\ LET request == calls[c].request
              found   == find(rows, request.id)
          IN  calls' = [calls EXCEPT ![c] =
                IF ~check_content_type(request.headers, "application/json")
                THEN Ended(@, abort(415, HTTPError("media_type")))
                ELSE IF found = <<>>
                THEN Ended(@, abort(404, HTTPError("not_found")))
                ELSE [@ EXCEPT !.pc = "deserialize", !.product = found[1],
                               !.fetched = found[1]]]
       /\ UNCHANGED <<rows, seq, used, req, resp, rows0>>

\* get_json, product.deserialize(data) and product.id = product_id: the
\* fields of the instance are overwritten from the body.
PutDeserialize ==
    \E c \in DOMAIN calls :
       /\ calls[c].pc = "deserialize"
       /\ LET request == calls[c].request
              d       == deserialize(calls[c].product, request.body)
          IN  calls' = [calls EXCEPT ![c] =
                IF request.body.kind = "malformed"
                THEN Ended(@, abort(400, HTTPError("bad_json")))
                ELSE IF d.error # NoError
                THEN Ended(@, bad_request(d.error))
                ELSE [@ EXCEPT !.pc = "update",
                               !.product = [d.product EXCEPT !.id = request.id]]]
       /\ UNCHANGED <<rows, seq, used, req, resp, rows0>>

\* PutUpdate writing only the fields whose value is not the one the request
\* had loaded.
PutUpdate_changed_fields ==
    \E c \in DOMAIN calls :
       /\ calls[c].pc = "update"
       /\ LET request == calls[c].request
              product == calls[c].product
              loaded  == calls[c].fetched
              merged(r) ==
                 [r EXCEPT
                    !.name = IF product.name # loaded.name THEN product.name ELSE @,
                    !.description = IF product.description # loaded.description
                                    THEN product.description ELSE @,
                    !.price = IF ~decimal_eq(product.price, loaded.price)
                              THEN product.price ELSE @,
                    !.available = IF product.available # loaded.available
                                  THEN product.available ELSE @,
                    !.category = IF product.category # loaded.category
                                 THEN product.category ELSE @]
              table   == [i \in 1..Len(rows) |->
                            IF rows[i].id = loaded.id THEN merged(rows[i]) ELSE rows[i]]
              answer  == Response(200, <<serialize(product)>>, NoId, NoError)
          IN  /\ rows' = table
              /\ used' = used \cup ids_of(table)
              /\ req' = request
              /\ resp' = answer
              /\ calls' = [calls EXCEPT ![c] = Ended(@, answer)]
       /\ UNCHANGED <<seq, rows0>>

\* product.update() and the answer: the instance is persisted.  req and resp
\* keep the request that persisted last and its answer.
PutUpdate ==
    \E c \in DOMAIN calls :
       /\ calls[c].pc = "update"
       /\ LET request == calls[c].request
              product == calls[c].product
              u       == update(rows, calls[c].fetched.id, product)
              answer  == IF u.error # NoError THEN bad_request(u.error)
                         ELSE Response(200, <<serialize(product)>>, NoId, NoError)
          IN  /\ rows' = u.table
              /\ used' = used \cup ids_of(u.table)
              /\ req' = request
              /\ resp' = answer
              /\ calls' = [calls EXCEPT ![c] = Ended(@, answer)]
       /\ UNCHANGED <<seq, rows0>>

NextPut ==
    \/ PutFind
    \/ PutDeserialize
    \/ PutUpdate

SpecPut == InitPut /\ [][NextPut]_vars

(***************************************************************************)
(* The step "the following products" (features/steps/load_steps.py): a     *)
(* client lists the products, deletes each one listed and posts one        *)
(* product per row of the step's table; an expectation that fails ends the *)
(* step.  No other client writes meanwhile.                                *)
(***************************************************************************)
\* Most rows the table of the step has.
MaxTable == 2

\* float(text) as the JSON encoder writes it: the value, without the zeros
\* written after it.
float(text) ==
    LET d == strip_zeros(Decimal(text))
    IN  Num(IF d.e = 0 THEN decimal_str(d) \o <<".", "0">> ELSE decimal_str(d))

\* Rows of a table: every cell is text.
TableRows ==
    { [name |-> <<"A">>, description |-> <<"d">>, price |-> <<"1", "0", ".", "0", "0">>,
       available |-> <<"T", "r", "u", "e">>, category |-> <<"C", "l", "o", "t", "h", "s">>],
      [name |-> <<"B">>, description |-> <<"e">>, price |-> <<"1", "0", ".", "5">>,
       available |-> <<"f", "a", "l", "s", "e">>, category |-> <<"F", "O", "O", "D">>],
      [name |-> <<"C">>, description |-> <<"f">>, price |-> <<"7">>,
       available |-> <<"t", "r", "u", "e">>, category |-> <<"b", "o", "g", "u", "s">>] }
Tables == UNION {[1..n -> TableRows] : n \in 0..MaxTable}

\* The body posted for a row.
product_data(row) ==
    Object([k \in Fields |->
              CASE k = "name" -> Str(row.name)
                [] k = "description" -> Str(row.description)
                [] k = "price" -> float(row.price)
                [] k = "available" -> Bool(lower(row.available) = <<"t", "r", "u", "e">>)
                [] k = "category" -> Str(upper(row.category))])

InitLoad ==
    \E store \in Stores, table \in Tables :
       /\ rows = store
       /\ rows0 = store
       /\ seq = Len(store) + 1
       /\ used = ids_of(store)
       /\ req = Request("NONE", "/", NoId, NoHeaders, NoArgs, NoBody)
       /\ resp = Response(0, <<>>, NoId, NoError)
       /\ calls = <<[pc |-> "list", table |-> table, listed |-> <<>>, products |-> <<>>]>>

step == calls[1]

\* GET /products, expected to be answered 200.
LoadList ==
    /\ step.pc = "list"
    /\ LET request == Request("GET", "/products", NoId, NoHeaders, NoArgs, NoBody)
           r       == dispatch(rows, seq, request)
       IN  /\ req' = request
           /\ resp' = r.resp
           /\ calls' = [calls EXCEPT ![1] =
                 IF r.resp.status # 200 THEN [@ EXCEPT !.pc = "failed"]
                 ELSE [@ EXCEPT !.listed = r.resp.records,
                                !.pc = IF r.resp.records # <<>> THEN "delete"
                                       ELSE IF step.table # <<>> THEN "post"
                                       ELSE "done"]]
    /\ UNCHANGED <<rows, seq, used, rows0>>

\* LoadDelete leaving the loop after the first product.
LoadDelete_first_only ==
    /\ step.pc = "delete"
    /\ LET request == Request("DELETE", "/products/id", Head(step.listed).id,
                              NoHeaders, NoArgs, NoBody)
           r       == dispatch(rows, seq, request)
       IN  /\ req' = request
           /\ resp' = r.resp
           /\ rows' = r.table
           /\ calls' = [calls EXCEPT ![1] =
                 IF r.resp.status # 204 THEN [@ EXCEPT !.pc = "failed"]
                 ELSE [@ EXCEPT !.listed = <<>>,
                                !.pc = IF step.table # <<>> THEN "post" ELSE "done"]]
    /\ UNCHANGED <<seq, used, rows0>>

\* DELETE /products/{id} of the next product listed, expected to be answered
\* 204.
LoadDelete ==
    /\ step.pc = "delete"
    /\ LET request == Request("DELETE", "/products/id", Head(step.listed).id,
                              NoHeaders, NoArgs, NoBody)
           r       == dispatch(rows, seq, request)
       IN  /\ req' = request
           /\ resp' = r.resp
           /\ rows' = r.table
           /\ calls' = [calls EXCEPT ![1] =
                 IF r.resp.status # 204 THEN [@ EXCEPT !.pc = "failed"]
                 ELSE [@ EXCEPT !.listed = Tail(@),
                                !.pc = IF Tail(step.listed) # <<>> THEN "delete"
                                       ELSE IF step.table # <<>> THEN "post"
                                       ELSE "done"]]
    /\ UNCHANGED <<seq, used, rows0>>

\* POST /products of the next row, expected to be answered 201; the product
\* returned is kept in context.products.  float() raises on a price that is
\* no number.
LoadPost ==
    /\ step.pc = "post"
    /\ LET row     == step.table[Len(step.products) + 1]
           request == Request("POST", "/products", NoId, JsonHeaders, NoArgs,
                              product_data(row))
           r       == dispatch(rows, seq, request)
       IN  IF ~Decimal(row.price).ok
           THEN /\ calls' = [calls EXCEPT ![1].pc = "failed"]
                /\ UNCHANGED <<rows, seq, used, req, resp>>
           ELSE /\ req' = request
                /\ resp' = r.resp
                /\ rows' = r.table
                /\ seq' = r.sequence
                /\ used' = used \cup ids_of(r.table)
                /\ calls' = [calls EXCEPT ![1] =
                      IF r.resp.status # 201 THEN [@ EXCEPT !.pc = "failed"]
                      ELSE [@ EXCEPT !.products = Append(@, r.resp.records[1]),
                                     !.pc = IF Len(step.products) + 1 < Len(step.table)
                                            THEN "post" ELSE "done"]]
    /\ UNCHANGED rows0

NextLoad ==
    \/ LoadList
    \/ LoadDelete
    \/ LoadPost

SpecLoad == InitLoad /\ [][NextLoad]_vars

(***************************************************************************)
(* Properties                                                              *)
(***************************************************************************)
IsJson(request) ==
    /\ "Content-Type" \in DOMAIN request.headers
    /\ request.headers["Content-Type"] = "application/json"

\* The stored record r has the non-id fields the JSON object o gives.
SameFields(r, o) ==
    /\ r.name = o["name"].v
    /\ r.description = o["description"].v
    /\ decimal_eq(r.price, Decimal(o["price"].v))
    /\ r.available = (o["available"].v = <<"t", "r", "u", "e">>)
    /\ r.category.name = upper(o["category"].v)

\* The serialized record s has the non-id fields the JSON object o gives.
SameFieldsSerialized(s, o) ==
    /\ s.name = o["name"].v
    /\ s.description = o["description"].v
    /\ Decimal(s.price).ok
    /\ decimal_eq(Decimal(s.price), Decimal(o["price"].v))
    /\ s.available = (o["available"].v = <<"t", "r", "u", "e">>)
    /\ s.category = upper(o["category"].v)

\* C1: a POST /products or PUT /products/{id} whose Content-Type header is
\* absent or is not exactly "application/json" is answered 415, whatever the
\* body and the store are, and the store is left as it was.
C1_ContentTypeEnforced ==
    (req.method \in {"POST", "PUT"} /\ ~IsJson(req))
        => /\ resp.status = 415
           /\ resp.records = <<>>
           /\ rows = rows0

\* A PUT with a near-miss Content-Type and an unparsable body, addressed to an
\* id that has no record, is answered 415 (not 400, not 404).
C1_Witness ==
    /\ req.method = "PUT"
    /\ "Content-Type" \in DOMAIN req.headers
    /\ req.headers["Content-Type"] = "application/json; charset=utf-8"
    /\ req.body.kind = "malformed"
    /\ req.id \notin ids_of(rows0)
    /\ resp.status = 415

\* C2: a POST /products with Content-Type application/json and a valid body
\* is answered 201 with one serialized record that has a non-null id and a
\* Location addressing that id; a GET of that id right after is answered 200
\* with a record equal to the body in every non-id field.
C2_CreateThenRead ==
    (req.method = "POST" /\ IsJson(req) /\ req.body \in ValidBodies)
        => /\ resp.status = 201
           /\ Len(resp.records) = 1
           /\ resp.records[1].id # NoId
           /\ resp.location = resp.records[1].id
           /\ SameFieldsSerialized(resp.records[1], req.body.obj)
           /\ LET get == get_products(rows,
                            Request("GET", "/products/id", resp.location,
                                    NoHeaders, NoArgs, NoBody))
              IN  /\ get.status = 200
                  /\ Len(get.records) = 1
                  /\ get.records[1].id = resp.location
                  /\ SameFieldsSerialized(get.records[1], req.body.obj)

\* A product posted with a numeric price and a lower-case category name into a
\* store that already holds a record.
C2_Witness ==
    /\ req.method = "POST"
    /\ resp.status = 201
    /\ req.body.obj["price"].t = "number"
    /\ resp.records[1].category = <<"F", "O", "O", "D">>
    /\ Len(rows0) > 0

C4_ReadOne ==
    (req.method = "GET" /\ req.path = "/products/id")
        => IF req.id \in ids_of(rows0)
           THEN /\ resp.status = 200
                /\ \E i \in 1..Len(rows0) :
                      /\ rows0[i].id = req.id
                      /\ resp.records = <<serialize(rows0[i])>>
           ELSE /\ resp.status = 404
                /\ resp.records = <<>>

\* The second of two stored records is read.
C4_Witness ==
    /\ req.method = "GET"
    /\ req.path = "/products/id"
    /\ Len(rows0) = 2
    /\ rows0[2].id = req.id
    /\ resp.status = 200

\* C5: a PUT with Content-Type application/json and a valid body to an id that
\* has a record is answered 200; afterwards the record of that id has every
\* non-id field equal to the body and still has the path id, also when the
\* body carries another id.
C5_UpdateOverwrites ==
    (req.method = "PUT" /\ IsJson(req) /\ req.body \in ValidBodies
        /\ req.id \in ids_of(rows0))
        => /\ resp.status = 200
           /\ resp.records # <<>>
           /\ resp.records[1].id = req.id
           /\ Cardinality({i \in 1..Len(rows) : rows[i].id = req.id}) = 1
           /\ \A i \in 1..Len(rows) :
                 rows[i].id = req.id => SameFields(rows[i], req.body.obj)

\* The body carries id 1 and is put to another id, changing the record.
C5_Witness ==
    /\ req.method = "PUT"
    /\ resp.status = 200
    /\ "id" \in DOMAIN req.body.obj
    /\ number_of(req.body.obj["id"].v) # req.id
    /\ rows # rows0

\* C6: a PUT with Content-Type application/json and a valid body to an id that
\* has no record is answered 404 and the store is left as it was.
C6_UpdateNeverInserts ==
    (req.method = "PUT" /\ IsJson(req) /\ req.body \in ValidBodies
        /\ req.id \notin ids_of(rows0))
        => /\ resp.status = 404
           /\ rows = rows0
           /\ ids_of(rows) = ids_of(rows0)

\* A valid PUT to the id of a record that was deleted, other records stored.
C6_Witness ==
    /\ req.method = "PUT"
    /\ IsJson(req)
    /\ req.body \in ValidBodies
    /\ req.id \in used \ ids_of(rows0)
    /\ rows0 # <<>>
    /\ resp.status = 404

\* C7 as stated: a PUT with Content-Type application/json whose body fails
\* validation is answered 400 whether or not a record of that id exists.
C7_ValidateBeforeFetch ==
    (req.method = "PUT" /\ IsJson(req) /\ req.body \in InvalidBodies)
        => resp.status = 400

\* C7 amended: PUT fetches the record before it validates the body, so a PUT
\* with Content-Type application/json and a body that fails validation is
\* answered 400 when a record of that id exists and 404 when none does.
C7_FetchBeforeValidate ==
    (req.method = "PUT" /\ IsJson(req) /\ req.body \in InvalidBodies)
        => /\ resp.status = IF req.id \in ids_of(rows0) THEN 400 ELSE 404
           /\ rows = rows0

\* An invalid body put to an id without a record, other records stored: 404.
C7_Witness ==
    /\ req.method = "PUT"
    /\ IsJson(req)
    /\ req.body \in InvalidBodies
    /\ req.id \notin ids_of(rows0)
    /\ rows0 # <<>>
    /\ resp.status = 404

\* C8: DELETE /products/{id} is answered 204 with an empty body whether or not
\* the id has a record; afterwards no record has that id, and the same DELETE
\* again gives the same answer and the same store.
C8_DeleteIdempotent ==
    (req.method = "DELETE")
        => /\ resp.status = 204
           /\ resp.records = <<>>
           /\ req.id \notin ids_of(rows)
           /\ delete_products(rows, req).resp = resp
           /\ delete_products(rows, req).table = rows

\* A DELETE that removed a record from a store of two.
C8_Witness ==
    /\ req.method = "DELETE"
    /\ req.id \in ids_of(rows0)
    /\ Len(rows0) = 2
    /\ Len(rows) = 1
    /\ resp.status = 204

\* C9: a POST, or a PUT to an id that has a record, with Content-Type
\* application/json and a body that fails validation is answered 400.
C9_ValidationIs400 ==
    (IsJson(req) /\ req.body \in InvalidBodies
        /\ (req.method = "POST" \/ (req.method = "PUT" /\ req.id \in ids_of(rows0))))
        => /\ resp.status = 400
           /\ resp.error.kind \in {"bad_data", "missing", "bad_type", "bad_attribute"}

\* A POST whose available is the string "true" is refused as a type error.
C9_Witness ==
    /\ req.method = "POST"
    /\ IsJson(req)
    /\ req.body.kind = "object"
    /\ "available" \in DOMAIN req.body.obj
    /\ req.body.obj["available"].t = "string"
    /\ resp.status = 400
    /\ resp.error.kind = "bad_type"

\* C10: GET /products without a query parameter is answered 200 with an array
\* holding every stored record exactly once and nothing else.
C10_ListAll ==
    (req.method = "GET" /\ req.path = "/products" /\ DOMAIN req.args = {})
        => /\ resp.status = 200
           /\ Len(resp.records) = Len(rows)
           /\ \A i \in 1..Len(rows) :
                 Cardinality({j \in 1..Len(resp.records) :
                                 resp.records[j] = serialize(rows[i])}) = 1
           /\ \A j \in 1..Len(resp.records) :
                 \E i \in 1..Len(rows) : resp.records[j] = serialize(rows[i])

\* The list of a store of two records, taken after a third was deleted.
C10_Witness ==
    /\ req.method = "GET"
    /\ req.path = "/products"
    /\ DOMAIN req.args = {}
    /\ Len(rows) = 2
    /\ Cardinality(used) = 3
    /\ Len(resp.records) = 2

(***************************************************************************)
(* Properties of the listing and of the routing                            *)
(***************************************************************************)
IsList(request) == request.method = "GET" /\ request.path = "/products"

\* The record r passes the filter of every parameter in K.
MatchesOn(r, args, K) ==
    /\ "name" \in K => r.name = args["name"]
    /\ "category" \in K => r.category.name = upper(args["category"])
    /\ "available" \in K =>
          r.available = (lower(args["available"]) = <<"t", "r", "u", "e">>)
    /\ "price" \in K => decimal_eq(r.price, Decimal(args["price"]))

\* The serialized records of the table that pass the filters of K.
Selected(table, args, K) ==
    LET kept == SelectSeq(table, LAMBDA r : MatchesOn(r, args, K))
    IN  [i \in 1..Len(kept) |-> serialize(kept[i])]

NonEmpty(args) == {k \in DOMAIN args : args[k] # <<>>}
Without(args, k) == Restrict(args, DOMAIN args \ {k})

UnknownCategory(args) ==
    "category" \in DOMAIN args /\ ~has_category(upper(args["category"]))
UnparsablePrice(args) ==
    "price" \in DOMAIN args /\ ~Decimal(args["price"]).ok

\* C11 as stated: with every supplied value valid (the category names a
\* member, the price parses, any name and any available value), GET /products
\* returns exactly the stored records that pass the filter of every supplied
\* parameter.
C11_EverySuppliedFilter ==
    (IsList(req) /\ Answered
        /\ ~UnknownCategory(req.args) /\ ~UnparsablePrice(req.args))
        => /\ resp.status = 200
           /\ resp.records = Selected(rows0, req.args, DOMAIN req.args)

\* C11 amended: with every supplied value valid, GET /products returns, in
\* store order, exactly the stored records that pass the filters of all the
\* parameters supplied with a non-empty value at once; a parameter supplied
\* with an empty value filters nothing.
C11_FiltersCompose ==
    (IsList(req) /\ Answered
        /\ ~UnknownCategory(Restrict(req.args, NonEmpty(req.args)))
        /\ ~UnparsablePrice(Restrict(req.args, NonEmpty(req.args))))
        => /\ resp.status = 200
           /\ resp.records = Selected(rows0, req.args, NonEmpty(req.args))

\* Name and category are both given and keep one record of three, while a
\* second record has the name only and a third the category only.
C11_Witness ==
    /\ IsList(req) /\ Answered
    /\ {"name", "category"} \subseteq DOMAIN req.args
    /\ Len(rows0) = 3
    /\ Len(resp.records) = 1
    /\ Len(Selected(rows0, req.args, {"name"})) = 2
    /\ Len(Selected(rows0, req.args, {"category"})) = 2

\* C12 as stated: a category parameter whose upper-cased value is not the
\* name of a member is answered 400, whatever the store and the other
\* parameters are.
C12_UnknownCategoryIs400 ==
    (IsList(req) /\ Answered /\ UnknownCategory(req.args))
        => resp.status = 400

\* C12 amended: a non-empty category value that is not the name of a member in
\* any letter case is answered 400 naming the value, never 200; an empty value
\* is ignored as if the parameter were absent; a value that names a member in
\* any letter case selects the records of that category.
C12_CategoryFilter ==
    (IsList(req) /\ Answered /\ "category" \in DOMAIN req.args)
        => IF req.args["category"] = <<>>
           THEN resp = list_products(rows0, [req EXCEPT !.args = Without(req.args, "category")])
           ELSE IF UnknownCategory(req.args)
           THEN /\ resp.status = 400
                /\ resp.error.field = "category"
                /\ resp.error.value = req.args["category"]
                /\ resp.records = <<>>
           ELSE resp.status = 200 =>
                   /\ \A i \in 1..Len(resp.records) :
                         resp.records[i].category = upper(req.args["category"])
                   /\ resp.records = Selected(rows0, req.args, NonEmpty(req.args))

\* An unknown category asked together with a name no record has: 400.
C12_Witness ==
    /\ IsList(req) /\ Answered
    /\ UnknownCategory(req.args)
    /\ req.args["category"] # <<>>
    /\ "name" \in DOMAIN req.args
    /\ rows0 # <<>>
    /\ Selected(rows0, req.args, {"name"}) = <<>>
    /\ resp.status = 400

\* C13 as stated: with an available parameter the answer keeps exactly the
\* records whose available is true when the value is "true" in any letter
\* case, and exactly those whose available is false for every other value.
C13_AvailableAlwaysFilters ==
    (IsList(req) /\ Answered /\ "available" \in DOMAIN req.args
        /\ resp.status = 200)
        => resp.records = Selected(rows0, req.args, NonEmpty(req.args) \cup {"available"})

\* C13 amended: the available parameter never causes an error; a value equal
\* to "true" in any letter case keeps the records whose available is true,
\* every other non-empty value keeps those whose available is false, and an
\* empty value is ignored as if the parameter were absent.
C13_AvailableFilter ==
    (IsList(req) /\ Answered /\ "available" \in DOMAIN req.args)
        => /\ resp.status = list_products(rows0, [req EXCEPT !.args = Without(req.args, "available")]).status
           /\ resp.status = 200 =>
                 /\ resp.records = Selected(rows0, req.args, NonEmpty(req.args))
                 /\ req.args["available"] # <<>> =>
                       \A i \in 1..Len(resp.records) :
                          resp.records[i].available =
                             (lower(req.args["available"]) = <<"t", "r", "u", "e">>)

\* The value "no" keeps the unavailable records of a table that has both.
C13_Witness ==
    /\ IsList(req) /\ Answered
    /\ DOMAIN req.args = {"available"}
    /\ req.args["available"] = <<"n", "o">>
    /\ resp.status = 200
    /\ resp.records # <<>>
    /\ Len(resp.records) < Len(rows0)

\* C14 as stated: a price parameter whose value does not parse as a decimal is
\* answered 400 with a message containing that value, whatever the store and
\* the other parameters are.
C14_UnparsablePriceIs400 ==
    (IsList(req) /\ Answered /\ UnparsablePrice(req.args))
        => /\ resp.status = 400
           /\ resp.error.value = req.args["price"]

\* C14 amended: a non-empty price value that does not parse as a decimal is
\* answered 400; the message contains the value unless the category value is
\* unknown too, which is reported instead.  An empty value is ignored as if
\* the parameter were absent, and a well-formed value keeps the records whose
\* stored price equals that decimal.
C14_PriceFilter ==
    (IsList(req) /\ Answered /\ "price" \in DOMAIN req.args)
        => IF req.args["price"] = <<>>
           THEN resp = list_products(rows0, [req EXCEPT !.args = Without(req.args, "price")])
           ELSE IF UnparsablePrice(req.args)
           THEN /\ resp.status = 400
                /\ resp.records = <<>>
                /\ IF UnknownCategory(req.args) /\ req.args["category"] # <<>>
                   THEN resp.error.value = req.args["category"]
                   ELSE resp.error.field = "price" /\ resp.error.value = req.args["price"]
           ELSE resp.status = 200 =>
                   /\ \A i \in 1..Len(resp.records) :
                         decimal_eq(Decimal(resp.records[i].price), Decimal(req.args["price"]))
                   /\ resp.records = Selected(rows0, req.args, NonEmpty(req.args))

\* An unparsable price asked together with a name no record has: 400 with
\* the value.
C14_Witness ==
    /\ IsList(req) /\ Answered
    /\ UnparsablePrice(req.args)
    /\ req.args["price"] # <<>>
    /\ "name" \in DOMAIN req.args
    /\ rows0 # <<>>
    /\ Selected(rows0, req.args, {"name"}) = <<>>
    /\ resp.status = 400
    /\ resp.error.value = req.args["price"]

Listed(request) == request.method \in methods(request.path)

\* C15 as stated: every request whose verb is not listed for its path is
\* answered 405 and changes nothing.
C15_UnlistedVerbIs405 ==
    (req.method \in Verbs /\ Answered /\ ~Listed(req))
        => resp.status = 405 /\ rows = rows0

\* C15 amended: a GET, POST, PUT, DELETE or PATCH request whose verb is not
\* listed for its path is answered 405 whatever its headers and body are;
\* OPTIONS is answered 200 on both paths and HEAD is answered with the status
\* of the GET of its path; none of these requests changes the store.
C15_Routing ==
    (req.method \in Verbs /\ Answered /\ ~Listed(req))
        => /\ rows = rows0
           /\ seq = Len(rows0) + 1
           /\ resp.records = <<>>
           /\ resp.status =
                 IF req.method = "OPTIONS" THEN 200
                 ELSE IF req.method = "HEAD"
                 THEN (IF req.path = "/products" \/ req.id \in ids_of(rows0)
                       THEN 200 ELSE 404)
                 ELSE 405

\* A PUT to the collection path with a JSON body that would be valid: 405.
C15_Witness ==
    /\ Answered
    /\ req.method = "PUT"
    /\ req.path = "/products"
    /\ IsJson(req)
    /\ req.body \in ValidBodies
    /\ rows0 # <<>>
    /\ resp.status = 405

(***************************************************************************)
(* Properties of the methods of Product                                    *)
(***************************************************************************)
\* C16: update() on a product whose id is unset fails with a validation
\* error and leaves the store as it was: no record inserted, changed or
\* removed.
C16_UpdateNeedsId ==
    (req.method = "update" /\ Answered /\ req.id = NoId)
        => /\ resp.error.kind = "no_id"
           /\ rows = rows0
           /\ seq = Len(rows0) + 1

\* update() without an id on a store that holds records.
C16_Witness ==
    /\ req.method = "update" /\ Answered
    /\ req.id = NoId
    /\ Len(rows0) = MaxRows
    /\ resp.error.kind = "no_id"

\* The fields of Fields in the order deserialize reads them.
FieldOrder == <<"name", "description", "price", "available", "category">>
Absent(data) == {i \in 1..Len(FieldOrder) : FieldOrder[i] \notin DOMAIN data.obj}
FirstAbsent(data) == FieldOrder[CHOOSE i \in Absent(data) : \A j \in Absent(data) : i <= j]

\* The mapping gives the fields it has as a valid mapping does.
ValidWherePresent(data) ==
    /\ data.kind = "object"
    /\ "available" \in DOMAIN data.obj => data.obj["available"].t = "boolean"
    /\ "category" \in DOMAIN data.obj => has_category(upper(data.obj["category"].v))

\* C17: deserializing a mapping that is valid except that some of name,
\* description, price, available, category are absent fails with the
\* missing-field error that names the absent field, the first absent one in
\* that order when several are.
C17_MissingFieldNamed ==
    (req.method = "deserialize" /\ Answered
        /\ ValidWherePresent(req.body) /\ Absent(req.body) # {})
        => /\ resp.error.kind = "missing"
           /\ resp.error.field = FirstAbsent(req.body)

\* Price and category are both absent from an otherwise valid mapping: the
\* price is the one named.
C17_Witness ==
    /\ req.method = "deserialize" /\ Answered
    /\ ValidWherePresent(req.body)
    /\ DOMAIN req.body.obj = {"name", "description", "available"}
    /\ resp.error.kind = "missing"
    /\ resp.error.field = "price"

NotBoolean(data) ==
    /\ data.kind = "object"
    /\ "available" \in DOMAIN data.obj
    /\ data.obj["available"].t # "boolean"

\* C18 as stated: deserializing any mapping whose available is present and is
\* no boolean fails with the type error of available.
C18_NotBooleanIsTypeError ==
    (req.method = "deserialize" /\ Answered /\ NotBoolean(req.body))
        => resp.error.kind = "bad_type"

\* C18 amended: deserializing a mapping whose available is present and is no
\* boolean always fails with a validation error and never sets available
\* from the value; the error is the type error of available when name,
\* description and price are present, and the missing-field error of the
\* first of these that is absent otherwise.
C18_NotBooleanRejected ==
    (req.method = "deserialize" /\ Answered /\ NotBoolean(req.body))
        => /\ resp.error # NoError
           /\ resp.records[1].available = Product.available
           /\ IF {"name", "description", "price"} \subseteq DOMAIN req.body.obj
              THEN resp.error.kind = "bad_type" /\ resp.error.field = "available"
              ELSE resp.error.kind = "missing"
                      /\ resp.error.field = FirstAbsent(req.body)

\* The text "True" for available in a mapping with every field: type error.
C18_Witness ==
    /\ req.method = "deserialize" /\ Answered
    /\ DOMAIN req.body.obj = Fields
    /\ req.body.obj["available"] = Str(<<"T", "r", "u", "e">>)
    /\ resp.error.kind = "bad_type"
    /\ resp.error.field = "available"

NotACategory(data) ==
    /\ data.kind = "object"
    /\ "category" \in DOMAIN data.obj
    /\ ~has_category(upper(data.obj["category"].v))

\* C19 as stated: deserializing any mapping whose category names no member
\* fails with a validation error that holds the offending value.
C19_NotACategoryIsNamed ==
    (req.method = "deserialize" /\ Answered /\ NotACategory(req.body))
        => /\ resp.error # NoError
           /\ resp.error.value = req.body.obj["category"].v

\* C19 amended: deserializing a mapping whose category names no member in
\* any letter case always fails with a validation error and never leaves a
\* category taken from the value or UNKNOWN in a product returned as valid;
\* the error holds the offending value when name, description, price and
\* available are present and available is a boolean, and is the error of the
\* first of those defects otherwise.
C19_NotACategoryRejected ==
    (req.method = "deserialize" /\ Answered /\ NotACategory(req.body))
        => /\ resp.error # NoError
           /\ IF Absent(req.body) = {} /\ ~NotBoolean(req.body)
              THEN /\ resp.error.kind = "bad_attribute"
                   /\ resp.error.value = req.body.obj["category"].v
              ELSE IF Absent(req.body) # {} /\ (NotBoolean(req.body) =>
                         \E f \in {"name", "description", "price"} : f \notin DOMAIN req.body.obj)
              THEN resp.error.kind = "missing" /\ resp.error.field = FirstAbsent(req.body)
              ELSE resp.error.kind = "bad_type"

\* The category "bogus" in a mapping that is valid otherwise.
C19_Witness ==
    /\ req.method = "deserialize" /\ Answered
    /\ DOMAIN req.body.obj = Fields
    /\ req.body.obj["available"].t = "boolean"
    /\ req.body.obj["category"].v = <<"b", "o", "g", "u", "s">>
    /\ resp.error.kind = "bad_attribute"
    /\ resp.error.value = <<"b", "o", "g", "u", "s">>

Valid(data) == ValidWherePresent(data) /\ Absent(data) = {}
PostedSerialized ==
    /\ req.method = "POST" /\ req.path = "/products" /\ IsJson(req)
    /\ req.body.kind = "object"
    /\ "id" \in DOMAIN req.body.obj

\* C20 as stated: serialize(deserialize(x)) gives back name, description,
\* price, available and category of a valid x as x gave them.
C20_RoundTripExact ==
    (req.method = "deserialize" /\ Answered /\ Valid(req.body))
        => LET x == req.body.obj
               y == json_of(resp.records[1]).obj
           IN  /\ resp.error = NoError
               /\ \A f \in Fields \ {"price"} : y[f] = x[f]
               /\ Decimal(y["price"].v).ok
               /\ decimal_eq(Decimal(y["price"].v), Decimal(x["price"].v))

\* C20 amended: serialize(deserialize(x)) of a valid x gives back name,
\* description and available as x gave them, the category as the canonical
\* upper-case name of the member x named in any letter case, and the price as
\* decimal text of the value x gave: digit for digit the text of x when x gave
\* text ("10.00" returns as "10.00"), the decimal of equal value when x gave a
\* number.  Posting the serialized form of a product returns a record equal
\* to it in every non-id field.
C20_RoundTrip ==
    /\ (req.method = "deserialize" /\ Answered /\ Valid(req.body))
          => LET x == req.body.obj
                 y == json_of(resp.records[1]).obj
             IN  /\ resp.error = NoError
                 /\ y["name"] = x["name"]
                 /\ y["description"] = x["description"]
                 /\ y["available"] = x["available"]
                 /\ y["category"] = Str(upper(x["category"].v))
                 /\ y["price"].t = "string"
                 /\ Decimal(y["price"].v).ok
                 /\ decimal_eq(Decimal(y["price"].v), Decimal(x["price"].v))
                 /\ x["price"].t = "string" => y["price"] = x["price"]
                 /\ x["category"].v = upper(x["category"].v) => y["category"] = x["category"]
    /\ (PostedSerialized /\ Answered)
          => /\ resp.status = 201
             /\ \A f \in Fields :
                   json_of(resp.records[1]).obj[f] = req.body.obj[f]

\* The price text "10.00" comes back as "10.00".
C20_Witness ==
    /\ req.method = "deserialize" /\ Answered
    /\ Valid(req.body)
    /\ req.body.obj["price"] = Str(<<"1", "0", ".", "0", "0">>)
    /\ resp.error = NoError
    /\ resp.records[1].price = <<"1", "0", ".", "0", "0">>

(***************************************************************************)
(* Properties of the finders                                               *)
(***************************************************************************)
\* The stored record r equals the argument of the finder called on its field.
EqualOnField(r, request) ==
    CASE request.method = "find_by_name" -> r.name = request.args["name"]
      [] request.method = "find_by_category" -> r.category.name = request.args["category"]
      [] request.method = "find_by_availability" ->
            r.available = (request.args["available"] = <<"t", "r", "u", "e">>)
      [] request.method = "find_by_price" ->
            r.price.c * pow10(Decimal(request.args["price"]).e)
               = Decimal(request.args["price"]).c * pow10(r.price.e)

\* C21: find_by_name, find_by_category, find_by_availability and
\* find_by_price each return exactly the stored records equal to the argument
\* on that one field, and find_by_price handed decimal text returns the
\* records it returns when handed the decimal of the same value.
C21_FindersSelect ==
    (req.method \in Finders /\ Answered)
        => /\ LET kept == SelectSeq(rows0, LAMBDA r : EqualOnField(r, req))
              IN  resp.records = [i \in 1..Len(kept) |-> serialize(kept[i])]
           /\ rows = rows0
           /\ (req.method = "find_by_price" /\ req.path = "str") =>
                 LET same == find_by_price(rows0,
                                PriceDecimal(strip_zeros(Decimal(req.args["price"]))))
                 IN  resp.records = [i \in 1..Len(same) |-> serialize(same[i])]

\* find_by_price handed the text "10" finds a record stored with the price
\* 10.00 and leaves out a record of another price.
C21_Witness ==
    /\ req.method = "find_by_price" /\ Answered
    /\ req.path = "str"
    /\ req.args["price"] = <<"1", "0">>
    /\ resp.records # <<>>
    /\ Len(resp.records) < Len(rows0)
    /\ \E i \in 1..Len(resp.records) : resp.records[i].price = <<"1", "0", ".", "0", "0">>

(***************************************************************************)
(* Order of the listing                                                    *)
(***************************************************************************)
\* The place of the record of that id in the table.
PlaceOf(table, id) == CHOOSE i \in 1..Len(table) : table[i].id = id

\* C23: the array GET /products returns holds stored records only, each as
\* it is stored, in the relative order of the store and none twice, whichever
\* of the name, category, available and price filters are applied.
C23_StoreOrderKept ==
    (IsList(req) /\ Answered /\ resp.status = 200)
        => /\ \A i \in 1..Len(resp.records) :
                 /\ resp.records[i].id \in ids_of(rows0)
                 /\ resp.records[i] = serialize(rows0[PlaceOf(rows0, resp.records[i].id)])
           /\ \A i, j \in 1..Len(resp.records) :
                 i < j => PlaceOf(rows0, resp.records[i].id) < PlaceOf(rows0, resp.records[j].id)

\* A category filter keeps the first and the last of three records and drops
\* the one between them.
C23_Witness ==
    /\ IsList(req) /\ Answered
    /\ "category" \in NonEmpty(req.args)
    /\ Len(rows0) = 3
    /\ Len(resp.records) = 2
    /\ resp.records[1].id = rows0[1].id
    /\ resp.records[2].id = rows0[3].id

(***************************************************************************)
(* What a request leaves alone                                             *)
(***************************************************************************)
\* C27: a PUT or DELETE on /products/{id} leaves every record of another id
\* as it was; a PUT keeps the number of records, a DELETE lowers it by one
\* when the id had a record and by none otherwise.
C27_OnlyThatRecord ==
    (req.path = "/products/id" /\ req.method \in {"PUT", "DELETE"} /\ Answered)
        => /\ Others(rows, req.id) = Others(rows0, req.id)
           /\ req.method = "PUT" => Len(rows) = Len(rows0)
           /\ req.method = "DELETE" =>
                 Len(rows) = Len(rows0) - (IF req.id \in ids_of(rows0) THEN 1 ELSE 0)

\* The second of three records is deleted: the first and the third stay.
C27_Witness ==
    /\ req.path = "/products/id" /\ req.method = "DELETE" /\ Answered
    /\ Len(rows0) = 3
    /\ req.id = rows0[2].id
    /\ rows = <<rows0[1], rows0[3]>>

\* C26: GET /health, GET /products with any query parameters and
\* GET /products/{id} leave the store as it was, and the same GET made again
\* right after, with no write between the two, is answered the same.
C26_ReadsChangeNothing ==
    /\ [](req.method = "GET" => rows = rows0)
    /\ [][req'.method = "GET" => (rows' = rows /\ seq' = seq)]_vars
    /\ [][(req.method = "GET" /\ req' = req) => resp' = resp]_vars

\* A listing with a query that is answered 400 on a store that holds records.
C26_Witness ==
    /\ req.method = "GET"
    /\ req.path = "/products"
    /\ resp.status = 400
    /\ rows0 # <<>>
    /\ rows = rows0

ErrorStatus == {400, 404, 405, 415}

\* C25: a request answered 400, 404, 405 or 415 leaves the store as it was
\* before the request; a PUT whose body fails validation after some fields of
\* the fetched record were overwritten leaves the stored record with its old
\* values.
C25_ErrorsChangeNothing ==
    (req.method \in Verbs /\ Answered /\ resp.status \in ErrorStatus)
        => /\ rows = rows0
           /\ seq = Len(rows0) + 1

\* A PUT on a stored record fails at the category after the name, the
\* description, the price and the availability were read from the body; the
\* body's name is not the stored one.
C25_Witness ==
    /\ req.method = "PUT" /\ req.path = "/products/id" /\ Answered
    /\ resp.status = 400
    /\ resp.error.kind = "bad_attribute"
    /\ req.id \in ids_of(rows0)
    /\ rows0[PlaceOf(rows0, req.id)].name # req.body.obj["name"].v
    /\ deserialize(rows0[PlaceOf(rows0, req.id)], req.body).product.name
          = req.body.obj["name"].v
    /\ rows = rows0

(***************************************************************************)
(* Requests handled at the same time                                       *)
(***************************************************************************)
AllDone == \A c \in DOMAIN calls : calls[c].pc = "done"
PutId == calls[1].request.id
BothValid ==
    /\ PutId \in ids_of(rows0)
    /\ \A c \in DOMAIN calls : calls[c].request.body \in ValidBodies

RowStored(r, row) ==
    /\ r.name = row.name
    /\ r.description = row.description
    /\ Decimal(row.price).ok
    /\ r.price.c * pow10(Decimal(row.price).e) = Decimal(row.price).c * pow10(r.price.e)
    /\ r.available = (lower(row.available) = <<"t", "r", "u", "e">>)
    /\ r.category.name = upper(row.category)

ValidRow(row) == Decimal(row.price).ok /\ has_category(upper(row.category))

\* C24: whatever the store held, when the step ends the store holds one
\* record per row of the table, in the order of the rows, each with the
\* name, description, price, availability and upper-cased category of its
\* row, and no record it held before; the step ends so whenever every row
\* of the table is valid.
C24_StoreReloaded ==
    /\ step.pc = "done" =>
          /\ Len(rows) = Len(step.table)
          /\ \A i \in 1..Len(rows) : RowStored(rows[i], step.table[i])
          /\ ids_of(rows) \cap ids_of(rows0) = {}
          /\ step.products = [i \in 1..Len(rows) |-> serialize(rows[i])]
    /\ step.pc = "failed" => \E i \in 1..Len(step.table) : ~ValidRow(step.table[i])
    /\ step.pc \in {"post", "done"} =>
          /\ ids_of(rows) \cap ids_of(rows0) = {}
          /\ Len(rows) = Len(step.products)

\* The step has ended on a store that held MaxRows records, with a table of
\* two rows, one of them of category "Cloths".
C24_Witness ==
    /\ step.pc = "done"
    /\ Len(rows0) = MaxRows
    /\ Len(step.table) = 2
    /\ step.table[1].category = <<"C", "l", "o", "t", "h", "s">>
    /\ rows[1].category.name = <<"C", "L", "O", "T", "H", "S">>
    /\ rows[1].id = MaxRows + 1

====
